---- MODULE Spec2Model ----
(***************************************************************************)
(* Contextual attribution (auditlog/context.py, auditlog/middleware.py)    *)
(* and log-entry creation (auditlog/models.py, LogEntryManager).           *)
(*                                                                         *)
(* Execution contexts are the threads of the host process: each has its    *)
(* own value of the two ContextVars, and the values outlive a request      *)
(* because set_source never resets auditlog_value.  The pre_save receiver  *)
(* list of django.db.models.signals is the one piece of process-wide       *)
(* state.  Python's None is the empty tuple, an optional value v is <<v>>. *)
(***************************************************************************)
EXTENDS Integers, Sequences, FiniteSets, TLC

\* ------------------------------------------------------------- bounds
MaxClock == 1
MaxDepth == 2
MaxScopes == 2
MaxEntries == 1
MaxRelated == 2

\* ------------------------------------------------------------- values
None == <<>>
Some(v) == <<v>>

\* The threads of the host process.
Ctx == {1, 2}

\* Instances of the auth user model; every other actor fails isinstance().
Users == {"alice", "bob"}
IsAuthUser(user) == user \in Users

\* getattr(user, "email", None)
EmailOf(user) ==
    CASE user = "alice" -> Some("alice@example.com")
      [] user = "bob" -> Some("bob@example.com")
      [] OTHER -> None

CREATE == "create"
UPDATE == "update"
DELETE == "delete"
ACCESS == "access"

DEFAULT_OBJECT_REPR == "<error forming object repr>"

\* The sender class the receivers are connected for.
LogEntry == "LogEntry"

VARIABLES
    clock,              \* what time.time() returns now
    auditlog_value,     \* ContextVar auditlog_value, per context
    auditlog_disabled,  \* ContextVar auditlog_disabled, per context
    frames,             \* per context: the with-blocks being executed, innermost last
    receivers,          \* pre_save.receivers for sender LogEntry
    entries,            \* the LogEntry instances created so far
    nextSid,            \* history: number of set_source scopes entered
    issued,             \* history: the signal_duid values generated so far
    collided,           \* history: some signal_duid was generated twice
    last                \* history: the latest operation and what it saw

vars ==
    << clock, auditlog_value, auditlog_disabled, frames, receivers, entries,
       nextSid, issued, collided, last >>

\* ------------------------------------------------ ContextVar accessors
\* auditlog_value.get(): LookupError when the variable was never set here.
HasValue(c) == auditlog_value[c] # None
ValueOf(c) == auditlog_value[c][1]

\* auditlog_disabled.get(): the declared default is False.
Disabled(c) == IF auditlog_disabled[c] = None THEN FALSE ELSE auditlog_disabled[c][1]

\* ------------------------------------------------ pre_save receiver list
\* Signal.connect: a receiver whose lookup key is already present is dropped.
Connect(rs, r) ==
    IF \E i \in 1..Len(rs) : rs[i].lookup_key = r.lookup_key
    THEN rs
    ELSE Append(rs, r)

\* Signal.disconnect: removes the receiver registered under the key, if any.
Disconnect(rs, dispatch_uid) ==
    SelectSeq(rs, LAMBDA r : r.lookup_key # dispatch_uid)

\* The receiver body: attribution of one instance, in context c.
\* (the instance.source test dropped: the actor is assigned on every save)
SetSourceOverwriting(c, user, sender, instance, signal_duid) ==
    IF ~HasValue(c)
    THEN instance
    ELSE IF signal_duid # ValueOf(c).signal_duid
    THEN instance
    ELSE LET attributed ==
                 IF sender = LogEntry /\ IsAuthUser(user)
                 THEN [instance EXCEPT !.source = Some(user),
                                       !.source_email = EmailOf(user)]
                 ELSE instance
         IN  [attributed EXCEPT !.remote_addr = ValueOf(c).remote_addr,
                                !.remote_port = ValueOf(c).remote_port]

\* (the isinstance test dropped: any actor is assigned)
SetSourceAnyActor(c, user, sender, instance, signal_duid) ==
    IF ~HasValue(c)
    THEN instance
    ELSE IF signal_duid # ValueOf(c).signal_duid
    THEN instance
    ELSE LET attributed ==
                 IF sender = LogEntry /\ instance.source = None
                 THEN [instance EXCEPT !.source = Some(user),
                                       !.source_email = EmailOf(user)]
                 ELSE instance
         IN  [attributed EXCEPT !.remote_addr = ValueOf(c).remote_addr,
                                !.remote_port = ValueOf(c).remote_port]

\* (the token comparison dropped: every receiver attributes)
SetSourceAnyToken(c, user, sender, instance, signal_duid) ==
    IF ~HasValue(c)
    THEN instance
    ELSE LET attributed ==
                 IF sender = LogEntry /\ IsAuthUser(user) /\ instance.source = None
                 THEN [instance EXCEPT !.source = Some(user),
                                       !.source_email = EmailOf(user)]
                 ELSE instance
         IN  [attributed EXCEPT !.remote_addr = ValueOf(c).remote_addr,
                                !.remote_port = ValueOf(c).remote_port]

_set_source(c, user, sender, instance, signal_duid) ==
    IF ~HasValue(c)
    THEN instance
    ELSE IF signal_duid # ValueOf(c).signal_duid
    THEN instance
    ELSE LET attributed ==
                 IF sender = LogEntry /\ IsAuthUser(user) /\ instance.source = None
                 THEN [instance EXCEPT !.source = Some(user),
                                       !.source_email = EmailOf(user)]
                 ELSE instance
         IN  [attributed EXCEPT !.remote_addr = ValueOf(c).remote_addr,
                                !.remote_port = ValueOf(c).remote_port]

\* pre_save.send(sender=LogEntry, instance=...): every connected receiver runs,
\* in connection order, in the context of the thread that saves.
RECURSIVE SendFrom(_, _, _, _)
SendFrom(c, rs, i, instance) ==
    IF i > Len(rs)
    THEN instance
    ELSE SendFrom(c, rs, i + 1,
                  _set_source(c, rs[i].user, LogEntry, instance, rs[i].signal_duid))

pre_save_send(c, instance) == SendFrom(c, receivers, 1, instance)

\* ------------------------------------------------ history helpers
\* The set_source scopes being executed, over all contexts.
SetSourceIdx(c) == { i \in 1..Len(frames[c]) : frames[c][i].kind = "set_source" }

ActiveSids == UNION { { frames[c][i].sid : i \in SetSourceIdx(c) } : c \in Ctx }

\* The innermost set_source block context c is executing, if any.
InnermostScope(c) ==
    IF SetSourceIdx(c) = {}
    THEN None
    ELSE Some(frames[c][CHOOSE i \in SetSourceIdx(c) : \A j \in SetSourceIdx(c) : j <= i])

\* The receivers whose token equals the one context c holds.
Matching(c) ==
    IF HasValue(c)
    THEN { i \in 1..Len(receivers) : receivers[i].signal_duid = ValueOf(c).signal_duid }
    ELSE {}

NoLast ==
    [ op |-> "none", ctx |-> 0, sid |-> 0, raised |-> FALSE, idx |-> 0,
      before |-> None, scope |-> None, handlers |-> {}, handler_users |-> {},
      src_from |-> {}, value_sid |-> 0,
      active |-> {}, disabled |-> FALSE, prior |-> FALSE, ret |-> None,
      force_log |-> FALSE, kwargs |-> <<>>, n_before |-> 0,
      queryset |-> <<>>, operation |-> "", field_name |-> "" ]

\* What a save of `instance` in context c sees, recorded before the receivers
\* run: the enclosing scope, the scopes whose receivers match the context's
\* token, the one among them that assigns the actor, the scope whose
\* context_data the origin is read from.
SaveSeen(c, instance) ==
    [ NoLast EXCEPT
        !.ctx = c,
        !.scope = InnermostScope(c),
        !.handlers = { receivers[i].sid : i \in Matching(c) },
        !.handler_users = { receivers[i].user : i \in Matching(c) },
        !.src_from = { receivers[i].sid : i \in
                         { j \in Matching(c) :
                             IsAuthUser(receivers[j].user) /\ instance.source = None } },
        !.value_sid = IF HasValue(c) THEN ValueOf(c).sid ELSE 0,
        !.active = ActiveSids,
        !.disabled = Disabled(c),
        !.n_before = Len(entries) ]

\* ------------------------------------------------ time
Tick ==
    /\ clock < MaxClock
    /\ clock' = clock + 1
    /\ last' = NoLast
    /\ UNCHANGED << auditlog_value, auditlog_disabled, frames, receivers, entries,
                    nextSid, issued, collided >>

\* ------------------------------------------------ set_source
\* with set_source(source, remote_addr, remote_port): up to the yield.
set_source_enter(c, source, remote_addr, remote_port) ==
    LET context_data ==
            [ signal_duid |-> << "set_source", clock >>,
              remote_addr |-> remote_addr,
              remote_port |-> remote_port,
              sid |-> nextSid + 1 ]
        receiver ==
            [ lookup_key |-> context_data.signal_duid,
              user |-> source,
              signal_duid |-> context_data.signal_duid,
              sid |-> nextSid + 1 ]
    IN  /\ auditlog_value' = [auditlog_value EXCEPT ![c] = Some(context_data)]
        /\ receivers' = Connect(receivers, receiver)
        /\ frames' = [frames EXCEPT ![c] =
               Append(@, [ kind |-> "set_source", sid |-> nextSid + 1, source |-> source,
                           context_data |-> context_data, inner_exited |-> FALSE ])]
        /\ nextSid' = nextSid + 1
        /\ issued' = issued \cup {context_data.signal_duid}
        /\ collided' = (collided \/ context_data.signal_duid \in issued)
        /\ last' = [NoLast EXCEPT !.op = "set_source_enter", !.ctx = c, !.sid = nextSid + 1]
        /\ UNCHANGED << clock, auditlog_disabled, entries >>

\* The finally block: the token is read back from auditlog_value.
ExitDisconnect(c) ==
    IF ~HasValue(c)
    THEN receivers
    ELSE Disconnect(receivers, ValueOf(c).signal_duid)

\* Popping a block: an enclosing set_source block has seen an inner one exit.
MarkInnerExited(fs, inner) ==
    [ i \in 1..Len(fs) |->
        IF inner.kind = "set_source" /\ fs[i].kind = "set_source"
        THEN [fs[i] EXCEPT !.inner_exited = TRUE]
        ELSE fs[i] ]

\* Leaving the with block, the body having returned or raised.
set_source_exit(c, raised) ==
    /\ frames[c] # <<>>
    /\ LET f == frames[c][Len(frames[c])]
       IN  /\ f.kind = "set_source"
           /\ receivers' = ExitDisconnect(c)
           /\ frames' = [frames EXCEPT ![c] = MarkInnerExited(SubSeq(@, 1, Len(@) - 1), f)]
           /\ last' = [NoLast EXCEPT !.op = "set_source_exit", !.ctx = c, !.sid = f.sid,
                                     !.raised = raised]
    /\ UNCHANGED << clock, auditlog_value, auditlog_disabled, entries, nextSid, issued,
                    collided >>

\* ------------------------------------------------ disable_auditlog
\* (the flag is cleared instead of restored from the token)
ResetToFalse(c, token) == [auditlog_disabled EXCEPT ![c] = Some(FALSE)]

\* auditlog_disabled.reset(token): the value the variable had before the set
\* that made the token, the unset state included.
ContextVarReset(c, token) == [auditlog_disabled EXCEPT ![c] = token.old_value]

\* with disable_auditlog(): up to the yield.
disable_auditlog_enter(c) ==
    /\ auditlog_disabled' = [auditlog_disabled EXCEPT ![c] = Some(TRUE)]
    /\ frames' = [frames EXCEPT ![c] =
           Append(@, [ kind |-> "disable_auditlog",
                       token |-> [old_value |-> auditlog_disabled[c]],
                       entered_with |-> Disabled(c) ])]
    /\ last' = [NoLast EXCEPT !.op = "disable_auditlog_enter", !.ctx = c]
    /\ UNCHANGED << clock, auditlog_value, receivers, entries, nextSid, issued, collided >>

\* The finally block of disable_auditlog, the body having returned or raised.
disable_auditlog_exit(c, raised) ==
    /\ frames[c] # <<>>
    /\ LET f == frames[c][Len(frames[c])]
       IN  /\ f.kind = "disable_auditlog"
           /\ auditlog_disabled' = ContextVarReset(c, f.token)
           /\ frames' = [frames EXCEPT ![c] = SubSeq(@, 1, Len(@) - 1)]
           /\ last' = [NoLast EXCEPT !.op = "disable_auditlog_exit", !.ctx = c,
                                     !.raised = raised, !.prior = f.entered_with]
    /\ UNCHANGED << clock, auditlog_value, receivers, entries, nextSid, issued, collided >>

\* ------------------------------------------------ keyword arguments
KwGet(kwargs, k, default) == IF k \in DOMAIN kwargs THEN kwargs[k] ELSE default

SetDefault(kwargs, k, v) == IF k \in DOMAIN kwargs THEN kwargs ELSE kwargs @@ (k :> v)

SetItem(kwargs, k, v) == (k :> v) @@ kwargs

\* ------------------------------------------------ LogEntry
\* LogEntry(**kwargs): the declared field defaults; remote_addr, remote_port and
\* source_email are plain attributes only the receiver assigns.
LogEntryInit(kwargs) ==
    [ source |-> KwGet(kwargs, "source", None),
      source_email |-> None,
      remote_addr |-> None,
      remote_port |-> None,
      identifier |-> KwGet(kwargs, "identifier", "None"),
      event_table |-> KwGet(kwargs, "event_table", "None"),
      event_column |-> KwGet(kwargs, "event_column", "None"),
      action |-> KwGet(kwargs, "action", ""),
      change_value |-> KwGet(kwargs, "change_value", None),
      content_type |-> KwGet(kwargs, "content_type", "") ]

\* Manager.create(**kwargs): build the instance and save it; pre_save fires.
create(c, kwargs) == pre_save_send(c, LogEntryInit(kwargs))

\* smart_str(obj): the text of the object's __str__.
smart_str(obj) == obj.str

\* smart_str(instance) guarded by except ObjectDoesNotExist.
EventColumn(instance) ==
    IF instance.str_raises THEN DEFAULT_OBJECT_REPR ELSE smart_str(instance)

\* _get_pk_value: the primary key, followed through a key that is itself a
\* model instance.  A key is [kind, str]: its Python type and its text.
RECURSIVE _get_pk_value(_)
_get_pk_value(instance) ==
    IF instance.pk.kind = "model"
    THEN _get_pk_value(instance.pk.obj)
    ELSE instance.pk

_get_table_name(instance) == instance.db_table

\* The defaults log_create and log_m2m_changes both fill in.
CommonDefaults(kwargs, instance) ==
    SetDefault(
        SetDefault(
            SetDefault(
                SetDefault(kwargs, "content_type", instance.model),
                "identifier", _get_pk_value(instance)),
            "event_table", _get_table_name(instance)),
        "event_column", EventColumn(instance))

log_create(c, instance, force_log, kwargs) ==
    LET change_value == KwGet(kwargs, "change_value", None)
        seen == [SaveSeen(c, LogEntryInit(kwargs)) EXCEPT
                    !.op = "log_create", !.force_log = force_log, !.kwargs = kwargs]
    IN  /\ IF change_value # None \/ force_log
           THEN LET entry == create(c, CommonDefaults(kwargs, instance))
                IN  /\ entries' = Append(entries, entry)
                    /\ last' = [seen EXCEPT !.ret = Some(entry), !.idx = Len(entries) + 1]
           ELSE /\ entries' = entries
                /\ last' = seen
        /\ UNCHANGED << clock, auditlog_value, auditlog_disabled, frames, receivers,
                        nextSid, issued, collided >>

\* (the related objects listed in reverse)
M2MObjectsReversed(changed_queryset) ==
    [ i \in 1..Len(changed_queryset) |->
        smart_str(changed_queryset[Len(changed_queryset) + 1 - i]) ]

\* [smart_str(instance) for instance in changed_queryset]
M2MObjects(changed_queryset) ==
    [ i \in 1..Len(changed_queryset) |-> smart_str(changed_queryset[i]) ]

log_m2m_changes(c, changed_queryset, instance, operation, field_name, kwargs) ==
    LET seen == [SaveSeen(c, LogEntryInit(kwargs)) EXCEPT
                    !.op = "log_m2m_changes", !.kwargs = kwargs,
                    !.queryset = changed_queryset, !.operation = operation,
                    !.field_name = field_name]
    IN  /\ IF changed_queryset # <<>>
           THEN LET kw == SetItem(
                        SetDefault(CommonDefaults(kwargs, instance), "action", UPDATE),
                        "change_value",
                        Some(field_name :> [ type |-> "m2m",
                                             operation |-> operation,
                                             objects |-> M2MObjects(changed_queryset) ]))
                    entry == create(c, kw)
                IN  /\ entries' = Append(entries, entry)
                    /\ last' = [seen EXCEPT !.ret = Some(entry), !.idx = Len(entries) + 1]
           ELSE /\ entries' = entries
                /\ last' = seen
        /\ UNCHANGED << clock, auditlog_value, auditlog_disabled, frames, receivers,
                        nextSid, issued, collided >>

\* Saving an existing LogEntry again: pre_save fires for it as for a new one.
save(c, idx) ==
    /\ idx \in 1..Len(entries)
    /\ entries' = [entries EXCEPT ![idx] = pre_save_send(c, @)]
    /\ last' = [SaveSeen(c, entries[idx]) EXCEPT
                    !.op = "save", !.idx = idx, !.before = Some(entries[idx])]
    /\ UNCHANGED << clock, auditlog_value, auditlog_disabled, frames, receivers,
                    nextSid, issued, collided >>

\* ------------------------------------------------ inputs
\* (source, remote_addr, remote_port) of the set_source calls.
ScopeArgs ==
    { << "alice", Some("10.0.0.1"), Some(443) >>,
      << "bob", Some("10.0.0.2"), Some(8080) >> }

Instances ==
    { [ model |-> "article", pk |-> [kind |-> "int", str |-> "1"], db_table |-> "app_article",
        str |-> "Article 1", str_raises |-> FALSE ],
      [ model |-> "article", pk |-> [kind |-> "int", str |-> "2"], db_table |-> "app_article",
        str |-> "Article 2", str_raises |-> TRUE ] }

StatusChange == ("status" :> << "draft", "published" >>)
EmptyChange == << >>

\* Keyword arguments of the log_create calls made inside scopes.
ScopeKwargs ==
    { ("action" :> UPDATE) @@ ("change_value" :> Some(StatusChange)) }

\* Keyword arguments of log_create: change_value absent, None, {} or a change.
CreateKwargs ==
    { ("action" :> a) : a \in {CREATE, ACCESS} }
    \cup { ("action" :> UPDATE) @@ ("change_value" :> v) :
               v \in {None, Some(EmptyChange), Some(StatusChange)} }
    \cup { ("action" :> DELETE) @@ ("change_value" :> Some(StatusChange))
               @@ ("source" :> Some("carol")) }

ObjStr(i) ==
    CASE i = 1 -> "Obj1"
      [] i = 2 -> "Obj2"
      [] i = 3 -> "Obj3"
      [] OTHER -> "Obj"

Related == { [ pk |-> i, str |-> ObjStr(i) ] : i \in 1..MaxRelated }

\* The querysets: related objects without repetition, in any order, or none.
QuerySets ==
    { q \in UNION { [1..n -> Related] : n \in 0..MaxRelated } :
        \A i, j \in 1..Len(q) : i # j => q[i] # q[j] }

M2MKwargs ==
    { << >>, ("action" :> CREATE), ("change_value" :> Some(StatusChange)) }

\* ------------------------------------------------ specifications
Init ==
    /\ clock = 0
    /\ auditlog_value = [c \in Ctx |-> None]
    /\ auditlog_disabled = [c \in Ctx |-> None]
    /\ frames = [c \in Ctx |-> << >>]
    /\ receivers = << >>
    /\ entries = << >>
    /\ nextSid = 0
    /\ issued = {}
    /\ collided = FALSE
    /\ last = NoLast

EnterScope ==
    \E c \in Ctx, a \in ScopeArgs :
        /\ Len(frames[c]) < MaxDepth
        /\ nextSid < MaxScopes
        /\ set_source_enter(c, a[1], a[2], a[3])

ExitScope == \E c \in Ctx, raised \in BOOLEAN : set_source_exit(c, raised)

EnterDisabled ==
    \E c \in Ctx :
        /\ Len(frames[c]) < MaxDepth
        /\ disable_auditlog_enter(c)

ExitDisabled == \E c \in Ctx, raised \in BOOLEAN : disable_auditlog_exit(c, raised)

LogInScope ==
    \E c \in Ctx, kwargs \in ScopeKwargs :
        /\ Len(entries) < MaxEntries
        /\ log_create(c, CHOOSE i \in Instances : i.pk.str = "1", FALSE, kwargs)

SaveAgain == \E c \in Ctx, idx \in 1..Len(entries) : save(c, idx)

Next ==
    \/ Tick
    \/ EnterScope
    \/ ExitScope
    \/ EnterDisabled
    \/ ExitDisabled
    \/ LogInScope
    \/ SaveAgain

Spec == Init /\ [][Next]_vars

\* The scopes and their receivers alone: no disable blocks.
NextAttribution ==
    \/ Tick
    \/ EnterScope
    \/ ExitScope
    \/ LogInScope
    \/ SaveAgain

SpecAttribution == Init /\ [][NextAttribution]_vars

\* The two context managers alone: nothing is logged.
NextScopes ==
    \/ Tick
    \/ EnterScope
    \/ ExitScope
    \/ EnterDisabled
    \/ ExitDisabled

SpecScopes == Init /\ [][NextScopes]_vars

\* The manager's two logging helpers over all their inputs, called by one
\* thread outside any scope or inside a single one.
LogCreate ==
    \E instance \in Instances, force_log \in BOOLEAN, kwargs \in CreateKwargs :
        /\ Len(entries) < MaxEntries
        /\ log_create(1, instance, force_log, kwargs)

LogM2M ==
    \E changed_queryset \in QuerySets, instance \in Instances,
       operation \in {"add", "remove"}, kwargs \in M2MKwargs :
        /\ Len(entries) < MaxEntries
        /\ log_m2m_changes(1, changed_queryset, instance, operation, "tags", kwargs)

EnterOneScope ==
    /\ frames[1] = << >>
    /\ nextSid < MaxScopes
    /\ set_source_enter(1, "alice", Some("10.0.0.1"), Some(443))

ExitOneScope == \E raised \in BOOLEAN : set_source_exit(1, raised)

NextLog ==
    \/ LogCreate
    \/ LogM2M
    \/ EnterOneScope
    \/ ExitOneScope

SpecLog == Init /\ [][NextLog]_vars

\* ------------------------------------------------ properties
\* The attribution a record created inside scope f is to carry.
ExpectedSource(f) == IF IsAuthUser(f.source) THEN Some(f.source) ELSE None

AttributedTo(entry, f) ==
    /\ entry.source = ExpectedSource(f)
    /\ entry.remote_addr = f.context_data.remote_addr
    /\ entry.remote_port = f.context_data.remote_port

Created == last.op = "log_create" /\ last.ret # None

\* Context c executes exactly one set_source block and has nested none in it.
SingleScope(c) ==
    /\ Cardinality(SetSourceIdx(c)) = 1
    /\ \A i \in SetSourceIdx(c) : ~frames[c][i].inner_exited

\* C1: with two set_source scopes active at once in different execution
\* contexts, a record created in one of them carries the actor and the origin
\* of the scope it was created in, never those of the other.
C1_ConcurrentScopesIsolated ==
    ( /\ Created
      /\ SingleScope(last.ctx)
      /\ \E c \in Ctx \ {last.ctx} : SingleScope(c) )
    => AttributedTo(last.ret[1], last.scope[1])

\* C2: a record created in an outer scope after an inner scope of the same
\* context has exited carries the outer scope's actor and origin.
C2_OuterScopeRestored ==
    ( /\ Created
      /\ last.scope # None
      /\ last.scope[1].inner_exited
      /\ ~collided )
    => AttributedTo(last.ret[1], last.scope[1])

\* C3: leaving a set_source scope removes the receiver that scope connected,
\* and with no scope left the receiver list holds no set_source receiver.
C3_ExitDisconnectsOwnReceiver ==
    /\ last.op = "set_source_exit" =>
           \A i \in 1..Len(receivers) : receivers[i].sid # last.sid
    /\ ActiveSids = {} => receivers = << >>

\* C4: a record saved after a scope has exited receives neither the actor nor
\* the origin of that scope: what a save assigns comes from scopes still active.
C4_NoAttributionAfterExit ==
    last.op \in {"log_create", "save"} =>
        /\ last.src_from \subseteq last.active
        /\ last.handlers # {} => last.value_sid \in last.active

\* C5: no two active scopes hold the same signal_duid, and each active scope
\* has its own receiver connected.
C5_TokensUnique ==
    /\ \A c1, c2 \in Ctx : \A i \in SetSourceIdx(c1), j \in SetSourceIdx(c2) :
           << c1, i >> # << c2, j >> =>
               frames[c1][i].context_data.signal_duid
                   # frames[c2][j].context_data.signal_duid
    /\ \A s \in ActiveSids : \E i \in 1..Len(receivers) : receivers[i].sid = s

C7_NoEntryWithoutChanges ==
    last.op = "log_create" =>
        /\ Len(entries) <= last.n_before + 1
        /\ KwGet(last.kwargs, "change_value", None) \in {None, Some(EmptyChange)} =>
               IF last.force_log
               THEN /\ Len(entries) = last.n_before + 1
                    /\ entries[Len(entries)].change_value = None
               ELSE /\ Len(entries) = last.n_before
                    /\ last.ret = None

DisableDepth(c) ==
    Cardinality({ i \in 1..Len(frames[c]) : frames[c][i].kind = "disable_auditlog" })

\* C8: the flag is true exactly while the context executes some
\* disable_auditlog block, and leaving a block restores the value the flag had
\* when that block was entered.
C8_DisableNests ==
    /\ \A c \in Ctx : Disabled(c) <=> DisableDepth(c) > 0
    /\ last.op = "disable_auditlog_exit" => Disabled(last.ctx) = last.prior

\* An inner disable block was left by an exception inside an outer one.
C8_Witness ==
    /\ last.op = "disable_auditlog_exit"
    /\ last.raised
    /\ last.prior
    /\ DisableDepth(last.ctx) = 1

\* C9: a record saved while the flag is true receives no actor and no origin.
C9_DisabledSuppressesAttribution ==
    ( Created /\ last.disabled ) =>
        /\ last.ret[1].source = KwGet(last.kwargs, "source", None)
        /\ last.ret[1].remote_addr = None
        /\ last.ret[1].remote_port = None

\* C10: with related objects log_m2m_changes appends one entry, its
\* change_value the m2m descriptor of the field with the objects' texts in
\* order, its action UPDATE unless the caller gave one; with none it appends
\* nothing and returns None.
C10_M2MEntry ==
    last.op = "log_m2m_changes" =>
        IF last.queryset # << >>
        THEN /\ Len(entries) = last.n_before + 1
             /\ last.ret = Some(entries[Len(entries)])
             /\ entries[Len(entries)].change_value =
                    Some(last.field_name :>
                           [ type |-> "m2m",
                             operation |-> last.operation,
                             objects |-> [ i \in 1..Len(last.queryset) |->
                                             last.queryset[i].str ] ])
             /\ entries[Len(entries)].action =
                    IF "action" \in DOMAIN last.kwargs THEN last.kwargs["action"] ELSE UPDATE
        ELSE /\ Len(entries) = last.n_before
             /\ last.ret = None

\* Two related objects were removed, the caller naming its own action.
C10_Witness ==
    /\ last.op = "log_m2m_changes"
    /\ Len(last.queryset) = 2
    /\ last.queryset[1].pk > last.queryset[2].pk
    /\ last.operation = "remove"
    /\ "action" \in DOMAIN last.kwargs
    /\ Len(entries) = last.n_before + 1

\* ------------------------------------------------ tracked fields and masking
MaxFields == 3

\* The field names of the tracked model, in declaration order.
FieldName(i) ==
    CASE i = 1 -> "password"
      [] i = 2 -> "username"
      [] i = 3 -> "age"
      [] i = 4 -> "token"
      [] OTHER -> "extra"

ModelFieldNames == [ i \in 1..MaxFields |-> FieldName(i) ]

ModelFieldSet == { ModelFieldNames[i] : i \in 1..MaxFields }

\* A name no field of the model carries.
UnknownField == "ghost"

\* A serialized value: whether it is a str, and its text.
SerializedValues ==
    { [is_str |-> TRUE, text |-> "hunter2"],
      [is_str |-> TRUE, text |-> ""],
      [is_str |-> FALSE, text |-> "42"] }

\* The fixed text a masked string is replaced by.
MASK == "***"

\* mask_str(value): the placeholder, whatever the value.
mask_str(value) == [is_str |-> TRUE, text |-> MASK]

\* (the test for str dropped: every field named in mask_fields is masked)
MaskAnyType(data, mask_fields) ==
    [ data EXCEPT !.fields =
        [ key \in DOMAIN data.fields |->
            IF key \in mask_fields
            THEN mask_str(data.fields[key])
            ELSE data.fields[key] ] ]

_mask_serialized_fields(data, mask_fields) ==
    [ data EXCEPT !.fields =
        [ key \in DOMAIN data.fields |->
            IF data.fields[key].is_str /\ key \in mask_fields
            THEN mask_str(data.fields[key])
            ELSE data.fields[key] ] ]

\* (exclude_fields ignored)
ApplicableIgnoringExclude(instance, model_fields) ==
    IF model_fields.include_fields = {} /\ model_fields.exclude_fields = {}
    THEN { instance.fields[i] : i \in 1..Len(instance.fields) }
    ELSE IF model_fields.include_fields # {}
         THEN model_fields.include_fields
         ELSE { instance.fields[i] : i \in 1..Len(instance.fields) }

\* The names returned, as a set: list(set(...)) keeps no order.
_get_applicable_model_fields(instance, model_fields) ==
    LET include_fields == model_fields.include_fields
        exclude_fields == model_fields.exclude_fields
        all_field_names == { instance.fields[i] : i \in 1..Len(instance.fields) }
    IN  IF include_fields = {} /\ exclude_fields = {}
        THEN all_field_names
        ELSE (IF include_fields # {} THEN include_fields ELSE all_field_names)
                 \ exclude_fields

\* The change map of the fields of `fields` whose serialized values differ,
\* None when none does.
model_instance_diff(old, new, fields) ==
    LET changed == { f \in fields \cap DOMAIN old \cap DOMAIN new : old[f] # new[f] }
    IN  IF changed = {}
        THEN None
        ELSE Some([ f \in changed |-> << old[f].text, new[f].text >> ])

Untouched ==
    UNCHANGED << clock, auditlog_value, auditlog_disabled, frames, receivers, entries,
                 nextSid, issued, collided >>

\* A pure function is applied from the idle state, and Return clears the record
\* of the call: the functions keep no state between calls.
Idle == last.op = "none"

Return ==
    /\ ~Idle
    /\ last' = NoLast
    /\ Untouched

\* _mask_serialized_fields on one serialized instance.
MaskCall ==
    /\ Idle
    /\ \E names \in SUBSET ModelFieldSet, mask_fields \in SUBSET (ModelFieldSet \cup {UnknownField}) :
        \E fields \in [names -> SerializedValues] :
            LET data == [ model |-> "app.user", pk |-> "1", fields |-> fields ]
            IN  /\ last' = [ op |-> "mask_serialized",
                             data |-> data,
                             mask_fields |-> mask_fields,
                             result |-> _mask_serialized_fields(data, mask_fields) ]
                /\ Untouched

\* The serialized state of the tracked instance before and after a change of
\* the fields in `changed`.
StateBefore == [ f \in ModelFieldSet |-> [is_str |-> TRUE, text |-> "old"] ]
StateAfter(changed) ==
    [ f \in ModelFieldSet |->
        IF f \in changed THEN [is_str |-> TRUE, text |-> "new"] ELSE StateBefore[f] ]

\* _get_applicable_model_fields, and the diff taken over the names it returns.
ApplicableCall ==
    /\ Idle
    /\ \E include_fields, exclude_fields \in SUBSET (ModelFieldSet \cup {UnknownField}),
       changed \in SUBSET ModelFieldSet :
        LET instance == [ fields |-> ModelFieldNames ]
            model_fields == [ include_fields |-> include_fields,
                              exclude_fields |-> exclude_fields ]
            tracked == _get_applicable_model_fields(instance, model_fields)
        IN  /\ last' = [ op |-> "applicable_fields",
                         model_fields |-> model_fields,
                         changed |-> changed,
                         result |-> tracked,
                         diff |-> model_instance_diff(StateBefore, StateAfter(changed),
                                                      tracked) ]
            /\ Untouched

NextFields ==
    \/ MaskCall
    \/ ApplicableCall
    \/ Return

SpecFields == Init /\ [][NextFields]_vars

\* C11: the result has the field names of the input; a field named in
\* mask_fields that holds a str holds the mask and not its plaintext, every
\* other field holds what it held, and a name absent from the data adds nothing.
C11_MaskSerializedFields ==
    last.op = "mask_serialized" =>
        /\ DOMAIN last.result.fields = DOMAIN last.data.fields
        /\ last.result.model = last.data.model
        /\ last.result.pk = last.data.pk
        /\ \A key \in DOMAIN last.data.fields :
               IF key \in last.mask_fields /\ last.data.fields[key].is_str
               THEN /\ last.result.fields[key] = [is_str |-> TRUE, text |-> MASK]
                    /\ last.result.fields[key].text # last.data.fields[key].text
               ELSE last.result.fields[key] = last.data.fields[key]

\* A masked str, a non-str named in mask_fields, a str that is not named, and
\* a name of mask_fields the data does not hold.
C11_Witness ==
    /\ last.op = "mask_serialized"
    /\ UnknownField \in last.mask_fields
    /\ \E k \in DOMAIN last.data.fields :
           k \in last.mask_fields /\ last.data.fields[k].is_str
    /\ \E k \in DOMAIN last.data.fields :
           k \in last.mask_fields /\ ~last.data.fields[k].is_str
    /\ \E k \in DOMAIN last.data.fields :
           k \notin last.mask_fields /\ last.data.fields[k].is_str

\* C12: the tracked names hold no name of exclude_fields, lie within
\* include_fields when that is not empty, are all model fields but the excluded
\* ones when it is empty, and the change map has no key outside them.
C12_ApplicableFields ==
    last.op = "applicable_fields" =>
        /\ last.result \cap last.model_fields.exclude_fields = {}
        /\ last.model_fields.include_fields # {} =>
               last.result \subseteq last.model_fields.include_fields
        /\ last.model_fields.include_fields = {} =>
               last.result = ModelFieldSet \ last.model_fields.exclude_fields
        /\ last.diff # None => DOMAIN last.diff[1] \subseteq last.result

\* An allow-list and a deny-list that overlap, with a changed field on each side.
C12_Witness ==
    /\ last.op = "applicable_fields"
    /\ last.model_fields.include_fields \cap last.model_fields.exclude_fields # {}
    /\ last.result # {}
    /\ last.diff # None
    /\ last.changed \cap last.model_fields.exclude_fields # {}

\* ---------------------------------------------------------------- get_for_object
MaxLogged == 2

\* isinstance(instance, models.Model): the records that model instances carry
\* a primary key.
IsModel(x) == "pk" \in DOMAIN x

\* LogEntry.objects.filter(**conditions): the stored entries, in order, that
\* meet every condition; identifier is a CharField, compared by its text.
filter(conditions) ==
    LET Meets(entry) ==
            /\ "content_type" \in DOMAIN conditions =>
                   entry.content_type = conditions["content_type"]
            /\ "identifier" \in DOMAIN conditions =>
                   smart_str(entry.identifier) = conditions["identifier"]
    IN  SelectSeq(entries, Meets)

get_for_object(instance) ==
    IF ~IsModel(instance)
    THEN << >>
    ELSE LET content_type == instance.model
             pk == _get_pk_value(instance)
         IN  IF pk.kind = "int"
             THEN filter("content_type" :> content_type)
             ELSE filter(("content_type" :> content_type)
                             @@ ("identifier" :> smart_str(pk)))

\* Instances with integer keys, with text keys, and one whose key is itself a
\* model instance (a one-to-one primary key).
QueryInstances ==
    Instances \cup
    { [ model |-> "tag", pk |-> [kind |-> "str", str |-> "a"], db_table |-> "app_tag",
        str |-> "Tag a", str_raises |-> FALSE ],
      [ model |-> "tag", pk |-> [kind |-> "str", str |-> "b"], db_table |-> "app_tag",
        str |-> "Tag b", str_raises |-> FALSE ],
      [ model |-> "profile",
        pk |-> [kind |-> "model", obj |-> CHOOSE i \in Instances : i.pk.str = "1"],
        db_table |-> "app_profile", str |-> "Profile 1", str_raises |-> FALSE ] }

\* Arguments that are no model instance.
NonModels == { [ str |-> "article" ] }

LogForQuery ==
    \E instance \in QueryInstances :
        /\ Len(entries) < MaxLogged
        /\ log_create(1, instance, FALSE,
                      ("action" :> UPDATE) @@ ("change_value" :> Some(StatusChange)))

QueryObject ==
    \E instance \in QueryInstances \cup NonModels :
        /\ last' = [ op |-> "get_for_object",
                     instance |-> instance,
                     result |-> get_for_object(instance) ]
        /\ Untouched

NextQuery ==
    \/ LogForQuery
    \/ QueryObject

SpecQuery == Init /\ [][NextQuery]_vars

\* C13: every entry get_for_object returns has the instance's content type and
\* the text of the instance's primary key as identifier, whatever the type of
\* the key; an argument that is no model instance gets no entry.
C13_GetForObjectOnlyOwnEntries ==
    last.op = "get_for_object" =>
        IF IsModel(last.instance)
        THEN \A i \in 1..Len(last.result) :
                 /\ last.result[i].content_type = last.instance.model
                 /\ smart_str(last.result[i].identifier)
                        = smart_str(_get_pk_value(last.instance))
        ELSE last.result = << >>

\* ---------------------------------------------------------- changes_display_dict
\* Text that is measured or cut is a sequence of characters; field names and
\* labels, which are only looked up, are strings.
MaxChanges == 2
DisplayCap == 140

Repeat(ch, n) == [ i \in 1..n |-> ch ]
NoneText == << "N", "o", "n", "e" >>
Ellipsis == << ".", ".", "." >>
Digits == { "0", "1", "2", "3", "4", "5", "6", "7", "8", "9" }

\* A JSON list of the change map is [dict |-> FALSE, list |-> ...]; the m2m
\* descriptor is a dict, and iterating a dict yields its keys.
List(items) == [ dict |-> FALSE, list |-> items ]
M2MDescriptor ==
    [ dict |-> TRUE, type |-> "m2m", operation |-> "add",
      objects |-> << << "T", "a", "g" >> >> ]
Iterate(values) ==
    IF values.dict
    THEN << << "t", "y", "p", "e" >>,
            << "o", "p", "e", "r", "a", "t", "i", "o", "n" >>,
            << "o", "b", "j", "e", "c", "t", "s" >> >>
    ELSE values.list

\* The texts the stored values are drawn from.
ListLiteral == << "[", "'", "d", "'", ",", "'", "p", "'", "]" >>
DictLiteral == << "{", "}" >>
DateText == << "2", "0", "2", "4", "-", "0", "1", "-", "0", "2" >>

\* ast.literal_eval on the stored texts: a list of strings, a dict, None, an
\* int, and ValueError for a bare word.
literal_eval(value) ==
    CASE value = ListLiteral -> [ ok |-> TRUE, type |-> "list", items |-> << << "d" >>, << "p" >> >> ]
      [] value = DictLiteral -> [ ok |-> TRUE, type |-> "dict" ]
      [] value = NoneText    -> [ ok |-> TRUE, type |-> "NoneType" ]
      [] value # << >> /\ \A i \in 1..Len(value) : value[i] \in Digits
                             -> [ ok |-> TRUE, type |-> "int" ]
      [] OTHER               -> [ ok |-> FALSE ]

\* dateutil's parser.parse followed by formats.localize, per field type;
\* None stands for ValueError.
ParseAndLocalize(field_type, value) ==
    IF value = DateText
    THEN CASE field_type = "DateField" -> Some(<< "J", "a", "n", ".", " ", "2", ",", " ", "2", "0", "2", "4" >>)
           [] field_type = "TimeField" -> Some(<< "m", "i", "d", "n", "i", "g", "h", "t" >>)
           [] OTHER -> Some(<< "J", "a", "n", ".", " ", "2", ",", " ", "2", "0", "2", "4", ",", " ",
                               "m", "i", "d", "n", "i", "g", "h", "t" >>)
    ELSE None

\* The related model of the foreign key, with the rows that still exist.
Author ==
    [ name |-> << "A", "u", "t", "h", "o", "r" >>,
      objects |-> (<< "7" >> :> << "J", "a", "n", "e" >>)
                      @@ (<< "8" >> :> Repeat("n", DisplayCap + 1)) ]

\* dict(field.choices)
StatusChoices ==
    (<< "d" >> :> << "D", "r", "a", "f", "t" >>)
        @@ (<< "p" >> :> << "P", "u", "b", "l", "i", "s", "h", "e", "d" >>)
        @@ (<< "L" >> :> Repeat("L", DisplayCap + 1))

\* The fields of the logged model, as model._meta.get_field finds them.  A
\* reverse relation has no get_internal_type and no verbose_name.
ModelMeta ==
    [ status   |-> [ name |-> "status", verbose_name |-> "Status",
                     choices |-> Some(StatusChoices), internal_type |-> Some("CharField") ],
      created  |-> [ name |-> "created", verbose_name |-> "Created at",
                     choices |-> None, internal_type |-> Some("DateTimeField") ],
      author   |-> [ name |-> "author", verbose_name |-> "Author",
                     choices |-> None, internal_type |-> Some("ForeignKey"),
                     related_model |-> Author ],
      title    |-> [ name |-> "title", verbose_name |-> "Title",
                     choices |-> None, internal_type |-> Some("CharField") ],
      password |-> [ name |-> "password", verbose_name |-> "Password",
                     choices |-> None, internal_type |-> Some("CharField") ],
      tags     |-> [ name |-> "tags", verbose_name |-> "Tags",
                     choices |-> None, internal_type |-> Some("ManyToManyField") ],
      comments |-> [ name |-> "comments", verbose_name |-> "comments",
                     choices |-> None, internal_type |-> None ] ]

\* model._meta.get_field(field_name); None stands for FieldDoesNotExist.
get_field(field_name) ==
    IF field_name \in DOMAIN ModelMeta THEN Some(ModelMeta[field_name]) ELSE None

\* auditlog.get_model_fields(model)["mapping_fields"]
mapping_fields == ("title" :> "Headline")

\* content_type.model_class(): None once the model class is gone.
model_class(content_type) ==
    IF content_type = "article" THEN Some(ModelMeta) ELSE None

ChoicesGet(choices_dict, value) ==
    IF value \in DOMAIN choices_dict THEN choices_dict[value] ELSE NoneText

\* ", ".join(labels)
RECURSIVE Join(_)
Join(labels) ==
    IF Len(labels) = 0 THEN << >>
    ELSE IF Len(labels) = 1 THEN labels[1]
    ELSE labels[1] \o << ",", " " >> \o Join(Tail(labels))

\* One value of a choices field; None stands for the TypeError that the
\* handler of `except Exception` raises again when the literal is unhashable.
ChoiceDisplay(choices_dict, value) ==
    LET lit == literal_eval(value)
    IN  IF ~lit.ok THEN Some(ChoicesGet(choices_dict, value))
        ELSE IF lit.type = "list"
             THEN Some(Join([ i \in 1..Len(lit.items) |-> ChoicesGet(choices_dict, lit.items[i]) ]))
        ELSE IF lit.type = "dict" THEN None
        ELSE Some(NoneText)

_get_changes_display_for_fk_field(field, value) ==
    IF value = NoneText THEN value
    ELSE IF \E i \in 1..Len(value) : value[i] \notin Digits THEN value
    ELSE IF value \in DOMAIN field.related_model.objects
         THEN field.related_model.objects[value]
         ELSE << "D", "e", "l", "e", "t", "e", "d", " ", "'" >> \o field.related_model.name
                  \o << "'", " ", "(" >> \o value \o << ")" >>

Truncate(value) ==
    IF Len(value) > DisplayCap
    THEN SubSeq(value, 1, DisplayCap) \o Ellipsis
    ELSE value

\* One value of a field without choices.
PlainDisplay(field, field_type, value) ==
    LET shown ==
            IF field_type \in {"DateTimeField", "DateField", "TimeField"}
            THEN LET parsed == ParseAndLocalize(field_type, value)
                 IN  IF parsed = None THEN value ELSE parsed[1]
            ELSE IF field_type \in {"ForeignKey", "OneToOneField"}
                 THEN _get_changes_display_for_fk_field(field, value)
                 ELSE value
    IN  Truncate(shown)

\* The body of the loop over changes_dict.items(), from item i on; acc holds
\* changes_display_dict so far and whether an exception left the loop.
RECURSIVE DisplayLoop(_, _, _)
DisplayLoop(items, i, acc) ==
    IF i > Len(items) \/ acc.raised THEN acc
    ELSE
      LET field_name == items[i][1]
          values == items[i][2]
          found == get_field(field_name)
      IN  IF found = None
          THEN DisplayLoop(items, i + 1,
                   [acc EXCEPT !.display = (field_name :> values) @@ @])
          ELSE
            LET field == found[1]
                todo == Iterate(values)
                verbose_name ==
                    IF field.name \in DOMAIN mapping_fields
                    THEN mapping_fields[field.name] ELSE field.verbose_name
            IN  IF field.choices # None
                THEN LET shown == [ k \in 1..Len(todo) |-> ChoiceDisplay(field.choices[1], todo[k]) ]
                     IN  IF \E k \in 1..Len(todo) : shown[k] = None
                         THEN [acc EXCEPT !.raised = TRUE]
                         ELSE DisplayLoop(items, i + 1,
                                  [acc EXCEPT !.display =
                                      (verbose_name :> List([ k \in 1..Len(todo) |-> shown[k][1] ])) @@ @])
                ELSE IF field.internal_type = None
                THEN DisplayLoop(items, i + 1, acc)
                ELSE DisplayLoop(items, i + 1,
                         [acc EXCEPT !.display =
                             (verbose_name :>
                                 List([ k \in 1..Len(todo) |->
                                          PlainDisplay(field, field.internal_type[1], todo[k]) ])) @@ @])

\* LogEntry.changes_dict: change_value or {} as its items, in order.
changes_dict(entry) ==
    IF entry.change_value = None THEN << >> ELSE entry.change_value[1]

\* The property: raised tells that an exception left it (model._meta on None
\* is the first), display is the dict it returns.
changes_display_dict(entry) ==
    IF model_class(entry.content_type) = None
    THEN [ raised |-> TRUE, display |-> << >> ]
    ELSE DisplayLoop(changes_dict(entry), 1, [ raised |-> FALSE, display |-> << >> ])

\* The change maps a stored entry may hold: per field, the [old, new] lists of
\* stored texts or the m2m descriptor.
ChangeItems ==
    { << "status", List(<< << "d" >>, << "p" >> >>) >>,
      << "status", List(<< << "z" >>, ListLiteral >>) >>,
      << "status", List(<< NoneText, << "L" >> >>) >>,
      << "status", List(<< << "d" >>, DictLiteral >>) >>,
      << "created", List(<< DateText, << "s", "o", "o", "n" >> >>) >>,
      << "author", List(<< NoneText, << "7" >> >>) >>,
      << "author", List(<< << "8" >>, << "9" >> >>) >>,
      << "author", List(<< << "x" >>, << "7" >> >>) >>,
      << "title", List(<< Repeat("x", DisplayCap), Repeat("x", DisplayCap + 1) >>) >>,
      << "password", List(<< << "o", "l", "d" >>, << "n", "&", "w" >> >>) >>,
      << "tags", M2MDescriptor >>,
      << "comments", List(<< NoneText, << "1" >> >>) >>,
      << "ghost", List(<< << "<" >>, Repeat("g", DisplayCap + 1) >>) >>,
      << "ghost", M2MDescriptor >> }

\* Items with distinct field names, as a dict holds them.
ChangeMaps ==
    { items \in UNION { [1..n -> ChangeItems] : n \in 0..MaxChanges } :
        \A i, j \in 1..Len(items) : i # j => items[i][1] # items[j][1] }

\* Reading changes_display_dict of a stored entry whose model class still
\* exists ("article") or is gone ("legacy").
DisplayCall ==
    /\ Idle
    /\ \E content_type \in {"article", "legacy"}, items \in ChangeMaps :
           LET entry == [ content_type |-> content_type,
                          change_value |-> IF items = << >> THEN None ELSE Some(items) ]
           IN  /\ last' = [ op |-> "display", entry |-> entry,
                            result |-> changes_display_dict(entry) ]
               /\ Untouched

NextDisplay ==
    \/ DisplayCall
    \/ Return

SpecDisplay == Init /\ [][NextDisplay]_vars

\* The items of the change map that the documented exclusion drops: fields of
\* the model that are relations without an internal type.
Excluded(items) ==
    { i \in 1..Len(items) :
        /\ get_field(items[i][1]) # None
        /\ get_field(items[i][1])[1].choices = None
        /\ get_field(items[i][1])[1].internal_type = None }

\* C14: changes_display_dict raises for no change map, whatever metadata is
\* missing, and returns one entry per item of the change map but the excluded
\* relation fields.
C14_DisplayNeverRaises ==
    last.op = "display" =>
        /\ ~last.result.raised
        /\ Cardinality(DOMAIN last.result.display)
               = Len(changes_dict(last.entry)) - Cardinality(Excluded(changes_dict(last.entry)))

\* C18: every text in the returned map is at most 140 characters followed by
\* "...", for every kind of field.
C18_DisplayValuesTruncated ==
    (last.op = "display" /\ ~last.result.raised) =>
        \A label \in DOMAIN last.result.display :
            LET shown == last.result.display[label]
            IN  ~shown.dict =>
                    \A k \in 1..Len(shown.list) :
                        \/ Len(shown.list[k]) <= DisplayCap
                        \/ /\ Len(shown.list[k]) = DisplayCap + Len(Ellipsis)
                           /\ SubSeq(shown.list[k], DisplayCap + 1, Len(shown.list[k])) = Ellipsis

\* ------------------------------------------------------ LogEntryAdminMixin.msg
\* format_html escapes every argument: conditional_escape on a str.
RECURSIVE escape(_)
escape(text) ==
    IF Len(text) = 0 THEN << >>
    ELSE IF Len(text) = 1
         THEN CASE text[1] = "&" -> << "&", "a", "m", "p", ";" >>
                [] text[1] = "<" -> << "&", "l", "t", ";" >>
                [] text[1] = ">" -> << "&", "g", "t", ";" >>
                [] text[1] = "'" -> << "&", "#", "x", "2", "7", ";" >>
                [] OTHER -> text
         ELSE escape(SubSeq(text, 1, Len(text) \div 2))
                  \o escape(SubSeq(text, Len(text) \div 2 + 1, Len(text)))

\* pretty_name on the labels that occur: first letter in upper case.
pretty_name(name) ==
    CASE name = "ghost" -> "Ghost"
      [] name = "comments" -> "Comments"
      [] OTHER -> name

field_verbose_name(obj, field_name) ==
    IF model_class(obj.content_type) = None THEN field_name
    ELSE IF field_name \in DOMAIN mapping_fields THEN mapping_fields[field_name]
    ELSE IF get_field(field_name) # None
         THEN pretty_name(get_field(field_name)[1].verbose_name)
         ELSE pretty_name(field_name)

\* sorted(changes.items()): the field names that occur, in the order of str.
SortedNames ==
    << "author", "comments", "created", "ghost", "password", "status", "tags", "title" >>

sorted(items) ==
    LET Position(name) == CHOOSE k \in 1..Len(SortedNames) : SortedNames[k] = name
        Rank(i) == Cardinality({ j \in 1..Len(items) : Position(items[j][1]) < Position(items[i][1]) })
    IN  [ r \in 1..Len(items) |-> items[CHOOSE i \in 1..Len(items) : Rank(i) = r - 1] ]

\* (the stored values shown for every field)
RowValuesUnmasked(field, change_value) == change_value.list

\* The From and To cells of an atomic row.
RowValues(field, change_value) ==
    IF field = "password"
    THEN << << "*", "*", "*" >>, << "*", "*", "*" >> >>
    ELSE change_value.list

\* msg(obj) as the lines of its two tables; raised stands for the
\* AssertionError on a dict that is no m2m descriptor.
msg(obj) ==
    LET items == changes_dict(obj)
        IsDict(i) == items[i][2].dict
        atom_changes == SelectSeq(items, LAMBDA item : ~item[2].dict)
        m2m_changes == SelectSeq(items, LAMBDA item : item[2].dict)
        atom_sorted == sorted(atom_changes)
        m2m_sorted == sorted(m2m_changes)
    IN  IF \E i \in 1..Len(items) : IsDict(i) /\ items[i][2].type # "m2m"
        THEN [ raised |-> TRUE, atom_rows |-> << >>, m2m_rows |-> << >> ]
        ELSE [ raised |-> FALSE,
               atom_rows |->
                   [ i \in 1..Len(atom_sorted) |->
                       LET field == atom_sorted[i][1]
                           value == RowValues(field, atom_sorted[i][2])
                       IN  [ i |-> i, field |-> field_verbose_name(obj, field),
                             from |-> escape(value[1]), to |-> escape(value[2]) ] ],
               m2m_rows |->
                   [ i \in 1..Len(m2m_sorted) |->
                       LET change_value == m2m_sorted[i][2]
                       IN  [ i |-> i, field |-> field_verbose_name(obj, m2m_sorted[i][1]),
                             operation |-> change_value.operation,
                             objects |-> [ k \in 1..Len(change_value.objects) |->
                                             escape(change_value.objects[k]) ] ] ] ]

MsgCall ==
    /\ Idle
    /\ \E content_type \in {"article", "legacy"}, items \in ChangeMaps :
           LET obj == [ content_type |-> content_type,
                        change_value |-> IF items = << >> THEN None ELSE Some(items) ]
           IN  /\ last' = [ op |-> "msg", entry |-> obj, result |-> msg(obj) ]
               /\ Untouched

NextAdmin ==
    \/ MsgCall
    \/ Return

SpecAdmin == Init /\ [][NextAdmin]_vars

\* The stored [old, new] of the atomic change of password, if the map has one.
PasswordChanges(obj) ==
    { item \in { changes_dict(obj)[i] : i \in 1..Len(changes_dict(obj)) } :
        item[1] = "password" /\ ~item[2].dict }

\* C15: msg shows an atomic change of the field password as "***" and "***",
\* and no cell of its tables holds a stored value of that field.
C15_PasswordMasked ==
    last.op = "msg" =>
        \A item \in PasswordChanges(last.entry) :
            /\ ~last.result.raised
            /\ \E r \in 1..Len(last.result.atom_rows) :
                   /\ last.result.atom_rows[r].field = field_verbose_name(last.entry, "password")
                   /\ last.result.atom_rows[r].from = << "*", "*", "*" >>
                   /\ last.result.atom_rows[r].to = << "*", "*", "*" >>
            /\ \A r \in 1..Len(last.result.atom_rows), k \in 1..2 :
                   /\ last.result.atom_rows[r].from # escape(item[2].list[k])
                   /\ last.result.atom_rows[r].to # escape(item[2].list[k])

\* A password change rendered next to the change of another field, which is
\* shown with its stored values.
C15_Witness ==
    /\ last.op = "msg"
    /\ PasswordChanges(last.entry) # {}
    /\ Len(last.result.atom_rows) = 2
    /\ \E r \in 1..2 : last.result.atom_rows[r].from \notin { << "*", "*", "*" >> }

\* ------------------------------------------------------- the receiver alone
\* Scopes of an auth user and of two actors that are no instance of the auth
\* user model: AnonymousUser, and the SimpleLazyObject the middleware builds
\* around a get_user that returns None.
HandlerArgs ==
    { << "alice", Some("10.0.0.1"), Some(443) >>,
      << "AnonymousUser", Some("10.0.0.2"), Some(8080) >>,
      << "SimpleLazyObject(None)", Some("10.0.0.3"), None >> }

\* log_create with the source left to the receiver, and with a source given.
HandlerKwargs ==
    { ("action" :> UPDATE) @@ ("change_value" :> Some(StatusChange)),
      ("action" :> UPDATE) @@ ("change_value" :> Some(StatusChange))
          @@ ("source" :> Some("carol")) }

\* Thread 1 enters and leaves scopes; both threads log and save, thread 2
\* never having entered a scope.
HandlerEnter ==
    \E a \in HandlerArgs :
        /\ Len(frames[1]) < MaxDepth
        /\ nextSid < MaxScopes
        /\ set_source_enter(1, a[1], a[2], a[3])

HandlerLog ==
    \E c \in Ctx, kwargs \in HandlerKwargs :
        /\ Len(entries) < MaxEntries
        /\ log_create(c, CHOOSE i \in Instances : i.pk.str = "1", FALSE, kwargs)

NextHandler ==
    \/ Tick
    \/ HandlerEnter
    \/ ExitOneScope
    \/ HandlerLog
    \/ SaveAgain

SpecHandler == Init /\ [][NextHandler]_vars

\* The latest operation saved a LogEntry: its index, and the source it had
\* when pre_save fired.
Saved == last.op \in {"save", "log_create"} /\ last.idx # 0
SourceBefore ==
    IF last.op = "save" THEN last.before[1].source ELSE KwGet(last.kwargs, "source", None)
OriginBefore ==
    IF last.op = "save"
    THEN << last.before[1].remote_addr, last.before[1].remote_port >>
    ELSE << None, None >>

\* C16: a receiver whose token is the one the saving context holds sets source
\* to its actor only when source is still None and the actor is an auth user,
\* and sets remote_addr and remote_port from the context_data in every case;
\* tokens being distinct, actor and origin are those of one scope.
C16_MatchingHandlerAttributes ==
    (Saved /\ last.handlers # {}) =>
        /\ Cardinality(last.handler_users) = 1
        /\ \A user \in last.handler_users :
               entries[last.idx].source =
                   IF SourceBefore = None /\ user \in Users THEN Some(user) ELSE SourceBefore
        /\ entries[last.idx].remote_addr = ValueOf(last.ctx).remote_addr
        /\ entries[last.idx].remote_port = ValueOf(last.ctx).remote_port
        /\ ~collided => last.handlers = {last.value_sid}

\* A record created in scope (alice, 10.0.0.1, 443) carries exactly these.
C16_Witness ==
    /\ Saved /\ last.op = "log_create"
    /\ last.handler_users = {"alice"}
    /\ SourceBefore = None
    /\ entries[last.idx].source = Some("alice")
    /\ entries[last.idx].remote_addr = Some("10.0.0.1")
    /\ entries[last.idx].remote_port = Some(443)

\* C17: when receivers are connected and none holds the token of the saving
\* context, or that context never entered a scope, the save leaves source,
\* remote_addr and remote_port as they were.
C17_MismatchIsNoOp ==
    (Saved /\ receivers # << >> /\ last.handlers = {}) =>
        /\ entries[last.idx].source = SourceBefore
        /\ << entries[last.idx].remote_addr, entries[last.idx].remote_port >> = OriginBefore

\* A receiver fired in a context that holds the token of another scope.
C17_Witness ==
    /\ Saved /\ receivers # << >> /\ last.handlers = {}
    /\ HasValue(last.ctx)
    /\ \A i \in 1..Len(receivers) : receivers[i].signal_duid # ValueOf(last.ctx).signal_duid
    /\ entries[last.idx].remote_addr = None

====
